---- MODULE Spec2Model ----
(***************************************************************************)
(* Model of the local mail server of src/server_test.py: the SMTP handler  *)
(* EmailHandler.handle_DATA, the SQLite store (init_db, save_email_to_db), *)
(* the attachment files, and the web thread's inbox / send_email views.    *)
(*                                                                         *)
(* Abstractions.                                                           *)
(*  - A byte is named by its hex value; the model uses "61" (ASCII "a")    *)
(*    and "E9" (not ASCII, not valid UTF-8 on its own, e-acute in latin-1).*)
(*  - A text is a sequence of characters, each character a string.         *)
(*  - A message's wire bytes are represented by the structure the bytes    *)
(*    spell out: a header block and a part tree when the bytes have one,   *)
(*    the bare bytes otherwise.                                            *)
(*  - A part is multipart exactly when its main type is multipart.         *)
(*  - The failures that can strike a call are those of the attachment      *)
(*    write and of the sqlite3 calls; the prints are taken not to raise.   *)
(***************************************************************************)
EXTENDS Integers, Sequences, FiniteSets, TLC

\* ------------------------------------------------------------------ bounds
\* Records the store may hold (guards DATA so the store stays finite).
MaxEmails == 2
\* Child parts of the top-level multipart container in the decomposition inputs.
MaxParts == 3

\* --------------------------------------------------------------- constants
None == "None"
ATTACHMENTS_DIR == "attachments"
NoSubject == "(No Subject)"
\* time.strftime("%Y-%m-%d %H:%M:%S") at the moment of the call.
NowStr == "strftime(now)"

\* ------------------------------------------------------------ bytes, text
ByteA == "61"
ByteE9 == "E9"
REPL == "U+FFFD"

RECURSIVE Concat(_)
\* Concatenation of a sequence of sequences.
Concat(ss) ==
    IF ss = <<>> THEN <<>> ELSE Head(ss) \o Concat(Tail(ss))

\* One byte decoded by a codec with errors="replace".  In the byte alphabet
\* used here a 0xE9 is never followed by a continuation byte, so UTF-8 and
\* ASCII replace each 0xE9 by one U+FFFD.
DecodeByte(codec, b) ==
    IF b = ByteA THEN "a"
    ELSE IF codec = "latin-1" THEN "e-acute"
    ELSE REPL

KnownCodecs == {"utf-8", "ascii", "latin-1"}

\* bytes.decode(codec, errors="replace"): raises LookupError for a codec
\* Python does not know, never raises for the bytes themselves.
BytesDecode(payload, codec) ==
    IF codec \in KnownCodecs
    THEN [raised |-> FALSE,
          text |-> [i \in 1..Len(payload) |-> DecodeByte(codec, payload[i])]]
    ELSE [raised |-> TRUE, text |-> <<>>]

\* The characters of one byte inside repr(bytes).
ReprByte(b) ==
    IF b = ByteA THEN <<"a">> ELSE <<"\\", "x", "e", "9">>

\* str(payload) of a bytes object: its repr, b'...'.
StrOfBytes(payload) ==
    <<"b", "'">> \o Concat([i \in 1..Len(payload) |-> ReprByte(payload[i])]) \o <<"'">>

\* base64 quanta of single bytes, as they stand in a part's transport form.
B64Decode(q) ==
    IF q = "YQ==" THEN ByteA ELSE ByteE9

\* part.get_payload(decode=True) of a leaf part: the Content-Transfer-Encoding
\* is undone first; the result is bytes.
GetPayloadDecoded(part) ==
    IF part.cte = "base64"
    THEN [i \in 1..Len(part.raw) |-> B64Decode(part.raw[i])]
    ELSE part.raw

\* part.get_content_charset() or "utf-8"
CharsetOrUtf8(part) ==
    IF part.charset = None THEN "utf-8" ELSE part.charset

\* The try/except around payload.decode(...): the decoded text, or
\* str(payload) when decoding raises.
DecodeBodyPayload(part) ==
    LET payload == GetPayloadDecoded(part)
        d == BytesDecode(payload, CharsetOrUtf8(part))
    IN  IF d.raised THEN StrOfBytes(payload) ELSE d.text

\* ------------------------------------------------------------ message tree
IsContainer(part) == part.maintype = "multipart"

RECURSIVE Walk(_)
\* Message.walk(): the part itself, then its subparts depth-first in order.
Walk(part) ==
    <<part>> \o
    (IF IsContainer(part)
     THEN Concat([i \in 1..Len(part.children) |-> Walk(part.children[i])])
     ELSE <<>>)

\* "attachment" in content_disposition.  The header is kept as its
\* disposition type; no filename used here contains the word.
DispositionHasAttachment(part) == part.disp = "attachment"

\* os.path.join(ATTACHMENTS_DIR, filename)
PathJoin(dir, filename) == <<dir, filename>>

\* A token of a JSON text.
Tok(t, v) == [t |-> t, v |-> v]

\* json.dumps of a list of paths, as its tokens.
JsonDumps(list) ==
    <<Tok("[", None)>>
    \o Concat([i \in 1..Len(list) |->
                 IF i = 1 THEN <<Tok("str", list[i])>>
                 ELSE <<Tok(",", None), Tok("str", list[i])>>])
    \o <<Tok("]", None)>>

\* json.loads of such a text: the strings between the brackets, in order.
JsonLoads(text) ==
    LET inner == SubSeq(text, 2, Len(text) - 1)
        idx == {i \in 1..Len(inner) : inner[i].t = "str"}
        nth(k) == CHOOSE i \in idx : Cardinality({j \in idx : j < i}) = k - 1
    IN  [k \in 1..Cardinality(idx) |-> inner[nth(k)].v]

\* ---------------------------------------------------------------- inputs
Leaf(maintype, disp, filename, charset, cte, raw) ==
    [maintype |-> maintype, disp |-> disp, filename |-> filename,
     charset |-> charset, cte |-> cte, raw |-> raw, children |-> <<>>]

Container(children) ==
    [maintype |-> "multipart", disp |-> "", filename |-> None,
     charset |-> None, cte |-> "7bit", raw |-> <<>>, children |-> children]

\* Wire bytes that spell a header block and a body.
Wellformed(from, to, subject, date, root) ==
    [wellformed |-> TRUE, From |-> from, To |-> to, Subject |-> subject,
     Date |-> date, root |-> root, bytes |-> <<>>]

\* Wire bytes with no header block at all.
Malformed(bytes) ==
    [wellformed |-> FALSE, From |-> None, To |-> None, Subject |-> None,
     Date |-> None, root |-> Container(<<>>), bytes |-> bytes]

\* email.message_from_bytes(envelope.content).  The parser is lenient: bytes
\* without a header block give a message with no headers whose payload is the
\* bytes themselves (a defect is recorded, nothing is raised).
MessageFromBytes(content) ==
    IF content.wellformed
    THEN [raised |-> FALSE,
          msg |-> [From |-> content.From, To |-> content.To,
                   Subject |-> content.Subject, Date |-> content.Date,
                   root |-> content.root]]
    ELSE [raised |-> FALSE,
          msg |-> [From |-> None, To |-> None, Subject |-> None, Date |-> None,
                   root |-> Leaf("text", "", None, None, "7bit", content.bytes)]]

TextA == Leaf("text", "", None, None, "7bit", <<ByteA>>)
TextAsciiE9 == Leaf("text", "", None, "ascii", "7bit", <<ByteE9>>)
TextBogus == Leaf("text", "", None, "x-bogus", "7bit", <<ByteA, ByteE9>>)
TextInlineNamed == Leaf("text", "inline", "f2", "latin-1", "base64", <<"6Q==">>)
AttF1A == Leaf("application", "attachment", "f1", None, "base64", <<"YQ==">>)
AttF1E9 == Leaf("application", "attachment", "f1", None, "base64", <<"6Q==", "YQ==">>)
AttF2 == Leaf("application", "attachment", "f2", None, "7bit", <<ByteE9>>)
AttNoName == Leaf("text", "attachment", None, None, "7bit", <<ByteA>>)

Leaves ==
    {TextA, TextAsciiE9, TextBogus, TextInlineNamed, AttF1A, AttF1E9, AttF2, AttNoName}

Filenames == {"f1", "f2"}
Paths == {PathJoin(ATTACHMENTS_DIR, f) : f \in Filenames}

\* Children of the top-level container: a leaf, or a nested container.
Children ==
    Leaves \cup {Container(<<AttF2, TextA>>), Container(<<TextAsciiE9, AttF1A>>)}

SeqsUpTo(S, n) == UNION {[1..k -> S] : k \in 1..n}

PayloadBytes == {<<>>, <<ByteA>>, <<ByteE9>>, <<ByteA, ByteE9>>, <<ByteE9, ByteA>>}

\* Inputs of the decomposition: single-part messages over every charset and
\* payload, multipart trees of up to MaxParts children, and header-less bytes.
DecompInputs ==
    {Wellformed(f, None, s, None, Leaf("text", "", None, c, "7bit", p)) :
        f \in {None, "hdr@x"}, s \in {None, "subj"},
        c \in {None, "ascii", "latin-1", "x-bogus"}, p \in PayloadBytes}
    \cup {Wellformed("hdr@x", "to@x", "subj", "date", Container(cs)) : cs \in SeqsUpTo(Children, MaxParts)}
    \cup {Malformed(p) : p \in PayloadBytes \ {<<>>}}

\* The messages clients submit in the system specification.
\* What send_email builds: From, To and Subject set, one text part.
FormMsg ==
    Wellformed("hdr@x", "to@x", "subj", None, Leaf("text", "", None, "utf-8", "7bit", <<ByteA>>))
MalformedMsg == Malformed(<<ByteE9, ByteA>>)
AttachMsg == Wellformed("hdr@x", None, None, None, Container(<<TextA, AttF1A>>))
CollideMsg == Wellformed(None, None, "subj", None, Container(<<AttF1E9>>))
BogusMsg == Wellformed("hdr@x", "to@x", "subj", "date", TextBogus)

ClientMessages == {MalformedMsg, AttachMsg, CollideMsg, BogusMsg}

\* ----------------------------------------------------------------- state
\* "c1" is a connection of an SMTP client, "web" the connection that
\* send_email's smtplib.SMTP opens.
Sessions == {"c1", "web"}
EnvFrom == "env@x"
\* The recipient addresses clients name; a client names an address once.
EnvRcpts == {"rcpt@x"}
\* A path of the attachments directory: no file there, or a file's bytes.
NoFile == [exists |-> FALSE, data |-> <<>>]
File(bytes) == [exists |-> TRUE, data |-> bytes]

VARIABLES
    sess,       \* per connection: the SMTP session and its envelope
    h,          \* the activation of handle_DATA the event loop is running
    emails,     \* table emails: the committed rows, in id order
    seq,        \* sqlite_sequence of emails (AUTOINCREMENT high-water mark)
    txn,        \* the uncommitted INSERT of save_email_to_db's connection
    files,      \* the attachments directory: path -> bytes
    view,       \* what inbox() last rendered
    accepted    \* history: the messages answered 250, in order

vars == <<sess, h, emails, seq, txn, files, view, accepted>>

NoReply == <<None, None>>

ClosedSession ==
    [conn |-> "closed", helo |-> FALSE, mail_from |-> None,
     rcpt_tos |-> <<>>, phase |-> "command", reply |-> NoReply, seqErr |-> FALSE]

Idle ==
    [pc |-> "idle", s |-> None, content |-> None, sender |-> None,
     recipients |-> None, subject |-> None, date_str |-> None, parts |-> <<>>,
     i |-> 0, body |-> <<>>, attachments |-> <<>>, rowid |-> 0,
     store0 |-> <<>>, wrote |-> <<>>]

\* The database file before the first run: no table.
FreshDb == [hasTable |-> FALSE, rows |-> <<>>]

\* init_db(): CREATE TABLE IF NOT EXISTS leaves an existing table as it is.
InitDb(db) ==
    IF db.hasTable THEN db.rows ELSE <<>>

Init ==
    /\ sess = [s \in Sessions |-> ClosedSession]
    /\ h = Idle
    /\ emails = InitDb(FreshDb)
    /\ seq = 0
    /\ txn = <<>>
    /\ files = [p \in Paths |-> NoFile]
    /\ view = <<>>
    /\ accepted = <<>>

\* ------------------------------------------------------------ handle_DATA
\* msg.get(name, default)
HeaderOr(value, default) ==
    IF value = None THEN default ELSE value

\* ", ".join(envelope.rcpt_tos), a string as its chunks.
JoinRcpts(rcpt_tos) ==
    Concat([i \in 1..Len(rcpt_tos) |->
              IF i = 1 THEN <<rcpt_tos[i]>> ELSE <<", ", rcpt_tos[i]>>])

\* msg.get("To", ", ".join(envelope.rcpt_tos))
RecipientsOf(msg, rcpt_tos) ==
    IF msg.To = None THEN JoinRcpts(rcpt_tos) ELSE <<msg.To>>

\* The non-multipart branch: the whole payload, decoded, is the body.
SinglePartBody(root) ==
    IF GetPayloadDecoded(root) # <<>> THEN DecodeBodyPayload(root) ELSE <<>>

\* handle_DATA up to the walk: parse, header details with their fallbacks,
\* and for a non-multipart message the body.
HandleDATA_Start(s, content, mail_from, rcpt_tos, store) ==
    LET parsed == MessageFromBytes(content)
        msg == parsed.msg
        multi == IsContainer(msg.root)
    IN  IF parsed.raised
        THEN [Idle EXCEPT !.pc = "return550", !.s = s, !.content = content,
                          !.store0 = store]
        ELSE [Idle EXCEPT
                !.pc = IF multi THEN "walk" ELSE "insert",
                !.s = s,
                !.content = content,
                !.sender = HeaderOr(msg.From, mail_from),
                !.recipients = RecipientsOf(msg, rcpt_tos),
                !.subject = HeaderOr(msg.Subject, NoSubject),
                !.date_str = HeaderOr(msg.Date, NowStr),
                !.parts = IF multi THEN Walk(msg.root) ELSE <<>>,
                !.i = 1,
                !.body = IF multi THEN <<>> ELSE SinglePartBody(msg.root),
                !.store0 = store]

\* What the loop body does with one part of the walk.
ClassifyPart(part) ==
    IF IsContainer(part) THEN "container"
    ELSE IF DispositionHasAttachment(part)
         THEN (IF part.filename # None THEN "attachment" ELSE "dropped")
         ELSE "body"

\* body += payload.decode(...) when the payload is not empty.
AppendBody(body, part) ==
    IF GetPayloadDecoded(part) # <<>> THEN body \o DecodeBodyPayload(part) ELSE body

\* Mutant: get_payload() without decode=True, the transport form.
AttachmentBytesUndecoded(part) == part.raw

\* The bytes f.write() is given for an attachment part.
AttachmentBytes(part) == GetPayloadDecoded(part)

\* The loop moves to the next part, or leaves the walk for save_email_to_db.
Advance(hh) ==
    IF hh.i >= Len(hh.parts)
    THEN [hh EXCEPT !.i = @ + 1, !.pc = "insert"]
    ELSE [hh EXCEPT !.i = @ + 1]

\* History: an attachment reference is stale once its path is opened again.
Stale(atts, path) ==
    [k \in 1..Len(atts) |->
        IF atts[k].path = path THEN [atts[k] EXCEPT !.intact = FALSE] ELSE atts[k]]

StaleAll(log, path) ==
    [n \in 1..Len(log) |-> [log[n] EXCEPT !.atts = Stale(@, path)]]

\* One iteration of "for part in msg.walk()" that raises nothing.
HandleDATA_Part ==
    /\ h.pc = "walk"
    /\ h.i <= Len(h.parts)
    /\ LET part == h.parts[h.i]
           kind == ClassifyPart(part)
           path == PathJoin(ATTACHMENTS_DIR, part.filename)
       IN  IF kind = "attachment"
           THEN /\ files' = [files EXCEPT ![path] = File(AttachmentBytes(part))]
                /\ h' = Advance([h EXCEPT
                        !.attachments = Append(@, path),
                        !.wrote = Append(Stale(@, path),
                                         [path |-> path, part |-> part, intact |-> TRUE])])
                /\ accepted' = StaleAll(accepted, path)
           ELSE /\ h' = Advance([h EXCEPT
                        !.body = IF kind = "body" THEN AppendBody(@, part) ELSE @])
                /\ UNCHANGED <<files, accepted>>
    /\ UNCHANGED <<sess, emails, seq, txn, view>>

\* open(filepath, "wb") or f.write(...) raises: the exception leaves
\* handle_DATA.  A file that was opened before the failure is left truncated.
HandleDATA_WriteFails ==
    /\ h.pc = "walk"
    /\ h.i <= Len(h.parts)
    /\ ClassifyPart(h.parts[h.i]) = "attachment"
    /\ LET path == PathJoin(ATTACHMENTS_DIR, h.parts[h.i].filename)
       IN  \E opened \in BOOLEAN :
              /\ files' = IF opened THEN [files EXCEPT ![path] = File(<<>>)] ELSE files
              /\ accepted' = IF opened THEN StaleAll(accepted, path) ELSE accepted
              /\ h' = [h EXCEPT !.pc = "raise",
                                !.wrote = IF opened THEN Stale(@, path) ELSE @]
    /\ UNCHANGED <<sess, emails, seq, txn, view>>

\* ------------------------------------------------------- save_email_to_db
\* id INTEGER PRIMARY KEY AUTOINCREMENT: one more than the largest id the
\* table ever held.
NextRowId(seqv) == seqv + 1

\* The row of INSERT INTO emails (sender, recipients, subject, body, date,
\* attachments) VALUES (?, ?, ?, ?, ?, ?), attachments as json.dumps gives it.
NewRow(id, sender, recipients, subject, body, date_str, attachments) ==
    [id |-> id, sender |-> sender, recipients |-> recipients, subject |-> subject,
     body |-> body, date |-> date_str, attachments |-> JsonDumps(attachments)]

\* Mutant: the write replaces the table's content instead of adding to it.
CommitOverwrites(table, pending) == pending

\* conn.commit(): the transaction's row joins the table.
Commit(table, pending) == table \o pending

\* c.execute(INSERT ...): the row exists in the connection's transaction only.
SaveInsert ==
    /\ h.pc = "insert"
    /\ txn' = <<NewRow(NextRowId(seq), h.sender, h.recipients, h.subject,
                       h.body, h.date_str, h.attachments)>>
    /\ h' = [h EXCEPT !.pc = "commit", !.rowid = NextRowId(seq)]
    /\ UNCHANGED <<sess, emails, seq, files, view, accepted>>

\* conn.commit(); conn.close()
SaveCommit ==
    /\ h.pc = "commit"
    /\ emails' = Commit(emails, txn)
    /\ seq' = txn[1].id
    /\ txn' = <<>>
    /\ h' = [h EXCEPT !.pc = "return250"]
    /\ UNCHANGED <<sess, files, view, accepted>>

\* Mutant: the failure is swallowed and the handler goes on to its return.
SaveFailsSwallowed ==
    /\ h.pc \in {"insert", "commit"}
    /\ txn' = <<>>
    /\ h' = [h EXCEPT !.pc = "return250"]
    /\ UNCHANGED <<sess, emails, seq, files, view, accepted>>

\* sqlite3 raises in connect, execute or commit (disk full, locked, read-only):
\* the transaction is rolled back and the exception leaves handle_DATA.
SaveFails ==
    /\ h.pc \in {"insert", "commit"}
    /\ txn' = <<>>
    /\ h' = [h EXCEPT !.pc = "raise"]
    /\ UNCHANGED <<sess, emails, seq, files, view, accepted>>

\* History: the committed row with the given id.
RowOf(table, id) ==
    IF \E j \in 1..Len(table) : table[j].id = id
    THEN table[CHOOSE j \in 1..Len(table) : table[j].id = id]
    ELSE NewRow(0, None, <<>>, None, <<>>, None, <<>>)

\* The status line handle_DATA returns.
ReturnStatus(pc) ==
    IF pc = "return250" THEN "250" ELSE "550"

\* The session after the reply to the end of DATA: back to the state after
\* the greeting, the envelope cleared.
PostData(session, code) ==
    [session EXCEPT !.phase = "command", !.mail_from = None, !.rcpt_tos = <<>>,
                    !.reply = <<"DATA-END", code>>]

\* return "250 Message accepted for delivery" (or "550 Error"): the server
\* sends the status as its reply to the end of DATA.
HandleDATA_Return ==
    /\ h.pc \in {"return250", "return550"}
    /\ sess' = [sess EXCEPT ![h.s] = PostData(@, ReturnStatus(h.pc))]
    /\ accepted' = IF ReturnStatus(h.pc) = "250"
                   THEN Append(accepted,
                               [s |-> h.s, content |-> h.content,
                                mail_from |-> sess[h.s].mail_from,
                                rcpt_tos |-> sess[h.s].rcpt_tos,
                                id |-> h.rowid, atts |-> h.wrote,
                                row |-> RowOf(emails, h.rowid)])
                   ELSE accepted
    /\ h' = Idle
    /\ UNCHANGED <<emails, seq, txn, files, view>>

\* An exception left handle_DATA: the server answers 500.
HandleDATA_Raise ==
    /\ h.pc = "raise"
    /\ sess' = [sess EXCEPT ![h.s] = PostData(@, "500")]
    /\ h' = Idle
    /\ UNCHANGED <<emails, seq, txn, files, view, accepted>>

\* ------------------------------------------------------------- web thread
\* Mutant: the reader sees the writer's uncommitted row.
VisibleDirty(table, pending) == table \o pending

\* What inbox()'s own connection can read: committed rows only.
Visible(table, pending) == table

\* SELECT ... FROM emails ORDER BY id DESC, each row made a dict with its
\* attachments parsed back from JSON.
Listing(table) ==
    [k \in 1..Len(table) |->
        LET row == table[Len(table) + 1 - k]
        IN  [sender |-> row.sender, recipients |-> row.recipients,
             subject |-> row.subject, body |-> row.body, date |-> row.date,
             attachments |-> IF row.attachments # <<>>
                             THEN JsonLoads(row.attachments) ELSE <<>>]]

Inbox ==
    /\ view' = Listing(Visible(emails, txn))
    /\ UNCHANGED <<sess, h, emails, seq, txn, files, accepted>>

\* ------------------------------------------------------- the SMTP session
\* The listener run_smtp_server starts serves every connection on one event
\* loop: a command is read only while no handle_DATA is running.
LoopFree == h.pc = "idle"

IsWeb(s) == s = "web"

Reply(session, cmd, code) == [session EXCEPT !.reply = <<cmd, code>>]

\* A connection is accepted.  For "web" this is send_email's
\* smtplib.SMTP("localhost", 1025).
Connect(s) ==
    /\ LoopFree
    /\ sess[s].conn = "closed"
    /\ sess' = [sess EXCEPT ![s] =
                  [ClosedSession EXCEPT !.conn = "open",
                                        !.reply = <<"CONNECT", "220">>]]
    /\ UNCHANGED <<h, emails, seq, txn, files, view, accepted>>

Helo(s) ==
    /\ LoopFree
    /\ sess[s].conn = "open" /\ sess[s].phase = "command"
    /\ IsWeb(s) => ~sess[s].helo
    /\ sess' = [sess EXCEPT ![s] =
                  [@ EXCEPT !.helo = TRUE, !.mail_from = None, !.rcpt_tos = <<>>,
                            !.reply = <<"HELO", "250">>]]
    /\ UNCHANGED <<h, emails, seq, txn, files, view, accepted>>

MailFrom(s) ==
    /\ LoopFree
    /\ sess[s].conn = "open" /\ sess[s].phase = "command"
    /\ IsWeb(s) => (sess[s].helo /\ sess[s].mail_from = None
                    /\ sess[s].reply[1] # "DATA-END")
    /\ sess' = [sess EXCEPT ![s] =
                  IF ~@.helo \/ @.mail_from # None
                  THEN Reply(@, "MAIL", "503")
                  ELSE [@ EXCEPT !.mail_from = EnvFrom, !.reply = <<"MAIL", "250">>]]
    /\ UNCHANGED <<h, emails, seq, txn, files, view, accepted>>

Rcpt(s) ==
    /\ LoopFree
    /\ sess[s].conn = "open" /\ sess[s].phase = "command"
    /\ IsWeb(s) => (sess[s].mail_from # None /\ sess[s].rcpt_tos = <<>>)
    /\ \E addr \in EnvRcpts :
          /\ \A k \in 1..Len(sess[s].rcpt_tos) : sess[s].rcpt_tos[k] # addr
          /\ sess' = [sess EXCEPT ![s] =
                        IF ~@.helo \/ @.mail_from = None
                        THEN Reply(@, "RCPT", "503")
                        ELSE [@ EXCEPT !.rcpt_tos = Append(@, addr),
                                       !.reply = <<"RCPT", "250">>]]
    /\ UNCHANGED <<h, emails, seq, txn, files, view, accepted>>

\* Mutant: DATA is accepted whether or not a recipient was given.
DataCmdUnchecked(s) ==
    /\ LoopFree
    /\ sess[s].conn = "open" /\ sess[s].phase = "command"
    /\ sess' = [sess EXCEPT ![s] = [@ EXCEPT !.phase = "data", !.reply = <<"DATA", "354">>]]
    /\ UNCHANGED <<h, emails, seq, txn, files, view, accepted>>

\* The reply to the DATA command: a sequence error unless a recipient was
\* accepted, else 354 and the session reads the payload.
DataCmd(s) ==
    /\ LoopFree
    /\ sess[s].conn = "open" /\ sess[s].phase = "command"
    /\ IsWeb(s) => sess[s].rcpt_tos # <<>>
    /\ sess' = [sess EXCEPT ![s] =
                  IF ~@.helo \/ @.rcpt_tos = <<>>
                  THEN [@ EXCEPT !.reply = <<"DATA", "503">>,
                                 !.seqErr = @ \/ sess[s].mail_from # None]
                  ELSE [@ EXCEPT !.phase = "data", !.reply = <<"DATA", "354">>]]
    /\ UNCHANGED <<h, emails, seq, txn, files, view, accepted>>

\* The payload and its lone-period line arrive: handle_DATA is called.
DataPayload(s, content) ==
    /\ LoopFree
    /\ sess[s].conn = "open" /\ sess[s].phase = "data"
    /\ Len(emails) < MaxEmails
    /\ h' = HandleDATA_Start(s, content, sess[s].mail_from, sess[s].rcpt_tos, emails)
    /\ sess' = [sess EXCEPT ![s].phase = "handler"]
    /\ UNCHANGED <<emails, seq, txn, files, view, accepted>>

Quit(s) ==
    /\ LoopFree
    /\ sess[s].conn = "open" /\ sess[s].phase = "command"
    /\ IsWeb(s) => sess[s].reply[1] = "DATA-END"
    /\ sess' = [sess EXCEPT ![s] = ClosedSession]
    /\ UNCHANGED <<h, emails, seq, txn, files, view, accepted>>

\* What a connection may submit as its message.
PayloadsOf(s) == IF IsWeb(s) THEN {FormMsg} ELSE ClientMessages

Next ==
    \/ \E s \in Sessions : Connect(s)
    \/ \E s \in Sessions : Helo(s)
    \/ \E s \in Sessions : MailFrom(s)
    \/ \E s \in Sessions : Rcpt(s)
    \/ \E s \in Sessions : DataCmd(s)
    \/ \E s \in Sessions : \E content \in PayloadsOf(s) : DataPayload(s, content)
    \/ \E s \in Sessions : Quit(s)
    \/ HandleDATA_Part
    \/ HandleDATA_WriteFails
    \/ SaveInsert
    \/ SaveCommit
    \/ SaveFails
    \/ HandleDATA_Return
    \/ HandleDATA_Raise
    \/ Inbox

Spec == Init /\ [][Next]_vars

\* The state in which a client has been told 354 and is about to send its
\* payload, the store still empty.
InitDecompose ==
    /\ sess = [s \in Sessions |->
                 IF s = "c1"
                 THEN [ClosedSession EXCEPT !.conn = "open",
                          !.helo = TRUE, !.mail_from = EnvFrom,
                          !.rcpt_tos = <<"rcpt@x">>, !.phase = "data",
                          !.reply = <<"DATA", "354">>]
                 ELSE ClosedSession]
    /\ h = Idle
    /\ emails = InitDb(FreshDb)
    /\ seq = 0
    /\ txn = <<>>
    /\ files = [p \in Paths |-> NoFile]
    /\ view = <<>>
    /\ accepted = <<>>

\* handle_DATA on every input of the decomposition.
NextDecompose ==
    \/ \E content \in DecompInputs : DataPayload("c1", content)
    \/ HandleDATA_Part
    \/ HandleDATA_WriteFails
    \/ SaveInsert
    \/ SaveCommit
    \/ SaveFails
    \/ HandleDATA_Return
    \/ HandleDATA_Raise
    \/ Inbox

SpecDecompose == InitDecompose /\ [][NextDecompose]_vars

\* ------------------------------------------------- the claims' vocabulary
\* The specification's classification of a leaf part and its decoding rule.
IsAttachmentPart(part) ==
    ~IsContainer(part) /\ DispositionHasAttachment(part) /\ part.filename # None

IsBodyPart(part) == ~IsContainer(part) /\ ~IsAttachmentPart(part)

\* Declared charset, falling back to UTF-8 with lossy replacement when the
\* charset is absent or decoding fails.
LossyDecode(part) ==
    LET payload == GetPayloadDecoded(part)
        d == BytesDecode(payload, CharsetOrUtf8(part))
    IN  IF d.raised THEN BytesDecode(payload, "utf-8").text ELSE d.text

Select(seqv, Test(_)) ==
    LET idx == {i \in 1..Len(seqv) : Test(seqv[i])}
        nth(k) == CHOOSE i \in idx : Cardinality({j \in idx : j < i}) = k - 1
    IN  [k \in 1..Cardinality(idx) |-> seqv[nth(k)]]

RootOf(content) == MessageFromBytes(content).msg.root

\* ParsedEmail.body of the specification's data model.
DeclaredBody(content) ==
    LET root == RootOf(content)
        leaves == Select(Walk(root), IsBodyPart)
    IN  IF IsContainer(root)
        THEN Concat([k \in 1..Len(leaves) |-> LossyDecode(leaves[k])])
        ELSE LossyDecode(root)

DeclaredSender(e) == HeaderOr(MessageFromBytes(e.content).msg.From, e.mail_from)
DeclaredSubject(e) == HeaderOr(MessageFromBytes(e.content).msg.Subject, NoSubject)

RowsWithId(id) == {j \in 1..Len(emails) : emails[j].id = id}

Finishing == h.pc # "idle" /\ h'.pc = "idle"

\* ------------------------------------------------------------------ claims
\* C1: for every message answered 250, a listing made afterwards contains a
\* record whose sender, subject and body are the message's declared values,
\* and that record's id is greater than the id of every earlier record.
C1_AcceptedIsListed ==
    \A n \in 1..Len(accepted) :
        LET e == accepted[n]
        IN  /\ \E j \in RowsWithId(e.id) :
                  /\ emails[j].sender = DeclaredSender(e)
                  /\ emails[j].subject = DeclaredSubject(e)
                  /\ emails[j].body = DeclaredBody(e.content)
                  /\ \A i \in 1..(j - 1) : emails[i].id < emails[j].id
            /\ \E k \in 1..Len(Listing(emails)) :
                  /\ Listing(emails)[k].sender = DeclaredSender(e)
                  /\ Listing(emails)[k].subject = DeclaredSubject(e)
                  /\ Listing(emails)[k].body = DeclaredBody(e.content)

\* C2: handle_DATA's reply is 250 only when the row is committed and every
\* attachment part was written; when a write or the insert fails the reply
\* is a rejection (500) and the table is as it was when the call began.
C2_ReplyMeansRecorded ==
    [][Finishing =>
        LET code == sess'[h.s].reply[2]
            nAtt == Len(Select(h.parts, IsAttachmentPart))
        IN  /\ sess'[h.s].reply[1] = "DATA-END"
            /\ (code = "250") =>
                  /\ h.pc = "return250"
                  /\ txn = <<>>
                  /\ Len(emails) > 0
                  /\ emails = h.store0 \o <<emails[Len(emails)]>>
                  /\ emails[Len(emails)].id = h.rowid
                  /\ Len(JsonLoads(emails[Len(emails)].attachments)) = nAtt
                  /\ \A k \in 1..Len(h.attachments) : files[h.attachments[k]].exists
            /\ (h.pc = "raise") =>
                  /\ code = "500"
                  /\ emails' = h.store0
                  /\ txn' = <<>>
    ]_vars

\* C2's case: a storage failure was answered 500 with a record in the store.
C2_Witness ==
    \E s \in Sessions :
        /\ sess[s].reply = <<"DATA-END", "500">>
        /\ Len(emails) = 1
        /\ h.pc = "idle"

\* C3: a payload that is not a structured message is answered 550, and the
\* table and the attachment files are as they were before the DATA command.
C3_MalformedRejected ==
    [][(Finishing /\ ~h.content.wellformed) =>
        /\ sess'[h.s].reply = <<"DATA-END", "550">>
        /\ emails' = h.store0
        /\ h.wrote = <<>>
    ]_vars

\* C4: DATA after MAIL FROM with no RCPT TO is answered with a sequence
\* error, handle_DATA is not called, nothing is persisted, and the session
\* stays open with its sender, ready for RCPT TO.
C4_DataBeforeRcpt ==
    [][\A s \in Sessions :
        (/\ sess[s].conn = "open" /\ sess[s].phase = "command"
         /\ sess[s].helo /\ sess[s].mail_from # None /\ sess[s].rcpt_tos = <<>>
         /\ sess'[s] # sess[s]
         /\ sess'[s].reply[1] = "DATA")
        => /\ sess'[s].reply[2] = "503"
           /\ h' = Idle
           /\ <<emails', seq', txn', files', accepted'>> = <<emails, seq, txn, files, accepted>>
           /\ sess'[s] = [sess[s] EXCEPT !.reply = <<"DATA", "503">>, !.seqErr = TRUE]
    ]_vars

\* C4's case: a session that got the sequence error later had a message
\* accepted with 250.
C4_Witness ==
    \E s \in Sessions : sess[s].seqErr /\ sess[s].reply = <<"DATA-END", "250">>

\* C5: every row a reader saw is a complete committed record, no two records
\* share an id, and the record of every accepted message is in the table as
\* it was committed.
C5_AtomicAppend ==
    /\ \A k \in 1..Len(view) :
          /\ DOMAIN view[k] = {"sender", "recipients", "subject", "body", "date", "attachments"}
          /\ \E j \in 1..Len(emails) : view[k] = Listing(<<emails[j]>>)[1]
    /\ \A i, j \in 1..Len(emails) : i # j => emails[i].id # emails[j].id
    /\ \A j \in 1..Len(emails) :
          DOMAIN emails[j] = {"id", "sender", "recipients", "subject", "body", "date", "attachments"}
    /\ \A n \in 1..Len(accepted) :
          \E j \in 1..Len(emails) : emails[j] = accepted[n].row

\* C5's case: a reader holds a listing while another session's append is in
\* its transaction.
C5_Witness ==
    /\ h.pc = "commit"
    /\ Len(view) = 1
    /\ Len(accepted) = 1
    /\ accepted[1].s # h.s

\* The text the handler's decoding gives for a part (nothing for an empty
\* payload).
DecodedText(part) ==
    IF GetPayloadDecoded(part) = <<>> THEN <<>> ELSE DecodeBodyPayload(part)

PathsOf(parts) ==
    [k \in 1..Len(parts) |-> PathJoin(ATTACHMENTS_DIR, parts[k].filename)]

\* C6: the record of a multipart message lists one path per attachment part
\* in walk order, and its body is the decoded text of the other leaf parts,
\* concatenated in walk order.
C6_MultipartRecord ==
    \A n \in 1..Len(accepted) :
        LET e == accepted[n]
            w == Walk(RootOf(e.content))
            texts == Select(w, IsBodyPart)
        IN  IsContainer(RootOf(e.content)) =>
              /\ JsonLoads(e.row.attachments) = PathsOf(Select(w, IsAttachmentPart))
              /\ e.row.body = Concat([k \in 1..Len(texts) |-> DecodedText(texts[k])])

\* C7 as stated: the file at every recorded path of every record holds the
\* decoded payload of that record's attachment part.
C7_EveryReferenceReadsBack ==
    \A n \in 1..Len(accepted) :
        \A k \in 1..Len(accepted[n].atts) :
            files[accepted[n].atts[k].path] = File(GetPayloadDecoded(accepted[n].atts[k].part))

\* C7 amended: the file at a recorded path holds the decoded payload of the
\* record's attachment part as long as no handle_DATA call has opened that
\* path for writing since the part was written.
C7_ReadsBackUntilReopened ==
    /\ \A n \in 1..Len(accepted) :
          /\ JsonLoads(accepted[n].row.attachments)
               = [k \in 1..Len(accepted[n].atts) |-> accepted[n].atts[k].path]
          /\ \A k \in 1..Len(accepted[n].atts) :
                accepted[n].atts[k].intact =>
                    files[accepted[n].atts[k].path]
                      = File(GetPayloadDecoded(accepted[n].atts[k].part))
    /\ \A k \in 1..Len(h.wrote) :
          h.wrote[k].intact =>
              files[h.wrote[k].path] = File(GetPayloadDecoded(h.wrote[k].part))

\* C7's case: a record's base64 attachment reads back decoded while another
\* record's reference to the same name has gone stale.
C7_Witness ==
    /\ Len(accepted) = 2
    /\ \E k \in 1..Len(accepted[1].atts) : ~accepted[1].atts[k].intact
    /\ \E k \in 1..Len(accepted[2].atts) :
          /\ accepted[2].atts[k].intact
          /\ accepted[2].atts[k].part.cte = "base64"
          /\ files[accepted[2].atts[k].path].data # accepted[2].atts[k].part.raw

C9_LeafIsAttachmentOrBody ==
    [][(h.pc = "walk" /\ h'.pc \in {"walk", "insert"} /\ ~IsContainer(h.parts[h.i])) =>
        LET part == h.parts[h.i]
        IN  IF IsAttachmentPart(part)
            THEN /\ h'.attachments = Append(h.attachments, PathJoin(ATTACHMENTS_DIR, part.filename))
                 /\ h'.body = h.body
            ELSE /\ h'.attachments = h.attachments
                 /\ h'.body = h.body \o DecodedText(part)
    ]_vars

\* The parts whose payload the handler appends to the body.
AppendedParts(root) ==
    IF IsContainer(root)
    THEN Select(Walk(root), LAMBDA p : ClassifyPart(p) = "body")
    ELSE <<root>>

\* C10: whatever the charset of a body part, the accepted record's body is
\* the lossy-replacement decoding of the payload.
C10_BodyIsLossyDecoding ==
    \A n \in 1..Len(accepted) :
        LET parts == AppendedParts(RootOf(accepted[n].content))
        IN  accepted[n].row.body = Concat([k \in 1..Len(parts) |-> LossyDecode(parts[k])])

====
